---------------------------- MODULE Spec2Model ----------------------------
(***************************************************************************)
(* A model of pyvision3's Image class (src/pyvision/image.py): a base      *)
(* raster, a separate annotation layer, the drawing operations that write  *)
(* the layer and the compositing of the layer onto the base raster.        *)
(*                                                                         *)
(* Arrays live in a heap of named cells, so that "the same array object"   *)
(* and "a copy" are different things, as they are for numpy arrays.        *)
(***************************************************************************)
EXTENDS Integers, Sequences, FiniteSets, TLC

VARIABLES
    heap,    \* cell name -> array (the numpy arrays that exist)
    imgs,    \* image id -> the fields of that Image object
    data0,   \* image id -> the base raster's value when the Image was built
    ret,     \* the cell of the raster the caller got from as_annotated
    last,    \* the most recent call: its name, arguments and outcome
    crops,   \* the most recent crop_regions call: arguments and result
    selector, \* the fields of the TileSelector object
    run,     \* TileSelector.process_all's frame: where it is, its page
    windows  \* the montage windows shown so far: page number and tile ids

vars == <<heap, imgs, data0, ret, last, crops, selector, run, windows>>

\* what the methods of Image leave alone
others == <<crops, selector, run, windows>>

-----------------------------------------------------------------------------
(* Bounds of the model *)

\* the largest number of coordinates of a line string or ring
MaxCoords == 3

\* the largest number of shapes handed to crop_regions
MaxShapes == 3

\* the largest number of tiles a tile generator yields
MaxTiles == 4

\* the largest chunk_size of a TileSelector
MaxChunk == 3

-----------------------------------------------------------------------------
(* Arrays *)

Cells == {"src", "dec1", "dec2", "ann1", "ann2", "ret", "tmp"}
NoCell == "none"

\* An array of shape (h, w) or (h, w, 3): px[y * w + x + 1] is the pixel in
\* row y, column x, a tuple of nch 8-bit values.
NoArray == [h |-> 0, w |-> 0, nch |-> 0, px |-> << >>]

Min(a, b) == IF a < b THEN a ELSE b
Max(a, b) == IF a > b THEN a ELSE b
Abs(a) == IF a < 0 THEN -a ELSE a

Index(a, x, y) == y * a.w + x + 1
XOf(a, p) == (p - 1) % a.w
YOf(a, p) == (p - 1) \div a.w
InArray(a, x, y) == x >= 0 /\ x < a.w /\ y >= 0 /\ y < a.h

\* np.zeros((height, width, 3), dtype='uint8')
Zeros3(height, width) ==
    [h |-> height, w |-> width, nch |-> 3,
     px |-> [p \in 1..(height * width) |-> <<0, 0, 0>>]]

\* ndarray.copy(): a new array with the same contents
Copy(a) == [h |-> a.h, w |-> a.w, nch |-> a.nch, px |-> a.px]

\* cv2.cvtColor(a, cv2.COLOR_GRAY2BGR): a new 3-channel array, each channel
\* the grey value
CvtColorGray2BGR(a) ==
    [h |-> a.h, w |-> a.w, nch |-> 3,
     px |-> [p \in 1..Len(a.px) |-> <<a.px[p][1], a.px[p][1], a.px[p][1]>>]]


-----------------------------------------------------------------------------
(* Colours *)

\* Image._fix_color_tuple: (r, g, b) -> (b, g, r), each 0 replaced by 1
\* _fix_color_tuple without the replacement of zeros
FixColorTupleKeepZero(color) == <<color[3], color[2], color[1]>>

\* _fix_color_tuple replacing a zero of the red component only
FixColorTupleRedOnly(color) ==
    <<color[3], color[2], IF color[1] = 0 THEN 1 ELSE color[1]>>

FixColorTuple(color) ==
    LET r == IF color[1] = 0 THEN 1 ELSE color[1]
        g == IF color[2] = 0 THEN 1 ELSE color[2]
        b == IF color[3] = 0 THEN 1 ELSE color[3]
    IN  <<b, g, r>>

\* cv2 stores a colour scalar into an 8-bit array with saturation
Saturate(v) == IF v < 0 THEN 0 ELSE IF v > 255 THEN 255 ELSE v

-----------------------------------------------------------------------------
(* The cv2 drawing primitives, as the set of pixels each one covers.       *)
(* Line type LINE_8 (the default): every covered pixel gets the colour.    *)

\* a / b rounded to the nearest integer (b > 0)
RoundDiv(a, b) == (2 * a + b) \div (2 * b)

\* the pixels of the segment pt1 .. pt2, thickness 1
LinePixels(pt1, pt2) ==
    LET dx == pt2[1] - pt1[1]
        dy == pt2[2] - pt1[2]
        n  == Max(Abs(dx), Abs(dy))
    IN  IF n = 0 THEN {pt1}
        ELSE {<<pt1[1] + RoundDiv(t * dx, n), pt1[2] + RoundDiv(t * dy, n)>> : t \in 0..n}

\* the pixels of a circle: the disc when filled (thickness < 0), else its rim
CirclePixels(a, ctr, radius, filled) ==
    {q \in {<<XOf(a, p), YOf(a, p)>> : p \in 1..Len(a.px)} :
        LET d2 == (q[1] - ctr[1]) * (q[1] - ctr[1]) + (q[2] - ctr[2]) * (q[2] - ctr[2])
        IN  IF filled THEN d2 <= radius * radius
            ELSE d2 <= radius * radius /\ (radius = 0 \/ d2 > (radius - 1) * (radius - 1))}

\* the pixels of a rectangle with corners pt1, pt2: all of it when filled,
\* else its border
RectPixels(a, pt1, pt2, filled) ==
    LET x0 == Min(pt1[1], pt2[1])
        x1 == Max(pt1[1], pt2[1])
        y0 == Min(pt1[2], pt2[2])
        y1 == Max(pt1[2], pt2[2])
    IN  {q \in {<<XOf(a, p), YOf(a, p)>> : p \in 1..Len(a.px)} :
            /\ q[1] >= x0 /\ q[1] <= x1 /\ q[2] >= y0 /\ q[2] <= y1
            /\ filled \/ q[1] \in {x0, x1} \/ q[2] \in {y0, y1}}

\* the array with the pixels of S that lie inside it set to colour c
Paint(a, S, c) ==
    [a EXCEPT !.px = [p \in 1..Len(a.px) |->
        IF <<XOf(a, p), YOf(a, p)>> \in S
        THEN <<Saturate(c[1]), Saturate(c[2]), Saturate(c[3])>>
        ELSE a.px[p]]]


\* cv2.fillPoly(a, rings, c): the rings' closed outlines and the pixels an
\* odd number of ring edges separate from the outside (holes stay unfilled)
RingEdge(ring, i) == <<ring[i], ring[(i % Len(ring)) + 1]>>

Crosses(q, e) ==
    LET x1 == e[1][1]
        y1 == e[1][2]
        dx == e[2][1] - e[1][1]
        dy == e[2][2] - e[1][2]
    IN  /\ (y1 > q[2]) # (e[2][2] > q[2])
        /\ IF dy > 0 THEN (q[1] - x1) * dy < (q[2] - y1) * dx
                     ELSE (q[1] - x1) * dy > (q[2] - y1) * dx

FillPolyPixels(a, rings) ==
    LET edges == {<<r, i>> \in (1..Len(rings)) \X (1..MaxCoords + 1) : i <= Len(rings[r])}
        outline == UNION {LinePixels(RingEdge(rings[ri[1]], ri[2])[1],
                                     RingEdge(rings[ri[1]], ri[2])[2]) : ri \in edges}
        inside == {q \in {<<XOf(a, p), YOf(a, p)>> : p \in 1..Len(a.px)} :
                     Cardinality({ri \in edges :
                         Crosses(q, RingEdge(rings[ri[1]], ri[2]))}) % 2 = 1}
    IN  outline \cup inside

-----------------------------------------------------------------------------
(* Geometry (shapely): coordinates are floats, kept here in half units,    *)
(* so <<3, -1>> is the point (1.5, -0.5).                                  *)

\* int(x) of a float: truncation toward zero
ToInt(x2) == IF x2 >= 0 THEN x2 \div 2 ELSE -((-x2) \div 2)

\* (int(x), int(y)) of a coordinate
IntPoint(c) == <<ToInt(c[1]), ToInt(c[2])>>

\* np.array(coords, dtype='int') / [(int(x), int(y)) for (x, y) in coords]
IntPoints(coords) == [i \in 1..Len(coords) |-> IntPoint(coords[i])]


\* a shapely geometry: coords are a line's or ring's coordinates (a
\* polygon's exterior), parts the lines of a MultiLineString (a polygon's
\* interior rings)
Geometry(kind, coords, parts) == [kind |-> kind, coords |-> coords, parts |-> parts]
NoShape == Geometry("none", << >>, << >>)

-----------------------------------------------------------------------------
(* The Image object *)

NoImage == [data |-> NoCell, annotation_data |-> NoCell,
            height |-> 0, width |-> 0, nchannels |-> 0]

NoColor == << >>

\* the annotation layer while a call draws on it, and the annotate_line
\* calls made so far
Drawing(ann, segs) == [ann |-> ann, segs |-> segs]

\* Image.annotate_line: cv2.line on the annotation layer, in the fixed colour
AnnotateLineOn(st, pt1, pt2, color) ==
    Drawing(Paint(st.ann, LinePixels(pt1, pt2), FixColorTuple(color)),
            Append(st.segs, <<pt1, pt2>>))

\* Image.annotate_rect: cv2.rectangle on the annotation layer
AnnotateRectOn(ann, pt1, pt2, color, filled) ==
    Paint(ann, RectPixels(ann, pt1, pt2, filled), FixColorTuple(color))

\* Image.annotate_circle: cv2.circle on the annotation layer, centre int()ed
AnnotateCircleOn(ann, ctr, radius, color, filled) ==
    Paint(ann, CirclePixels(ann, IntPoint(ctr), radius, filled), FixColorTuple(color))

\* seq[k] as Python indexes a list: from 0, a negative k from the end
PyIndex(seq, k) == IF k >= 0 THEN seq[k + 1] ELSE seq[Len(seq) + k + 1]

\* the loop of Image._draw_segments: for i in range(i, stop)
RECURSIVE DrawSegmentsFrom(_, _, _, _, _)
DrawSegmentsFrom(st, points, color, i, stop) ==
    IF i >= stop THEN st
    ELSE DrawSegmentsFrom(
             AnnotateLineOn(st, PyIndex(points, i - 1), PyIndex(points, i), color),
             points, color, i + 1, stop)

\* Image._draw_segments with range(0, len(points)): points[-1] .. points[0]
\* is drawn first, which closes the line
DrawSegmentsClosing(st, coords, color) ==
    DrawSegmentsFrom(st, IntPoints(coords), color, 0, Len(coords))

\* Image._draw_segments
DrawSegments(st, coords, color) ==
    DrawSegmentsFrom(st, IntPoints(coords), color, 1, Len(coords))

\* for ring in rings: self._draw_segments(ring, color)
RECURSIVE DrawEach(_, _, _, _)
DrawEach(st, rings, color, k) ==
    IF k > Len(rings) THEN st
    ELSE DrawEach(DrawSegments(st, rings[k], color), rings, color, k + 1)

\* annotate_shape with a final else in place of elif isinstance(shape, sg.Polygon)
ShapeBranchElsePolygon(kind) ==
    IF kind \in {"LinearRing", "LineString"} THEN "segments"
    ELSE IF kind = "MultiLineString" THEN "lines"
    ELSE "polygon"

\* the branch of Image.annotate_shape that a geometry kind takes
ShapeBranch(kind) ==
    IF kind \in {"LinearRing", "LineString"} THEN "segments"
    ELSE IF kind = "MultiLineString" THEN "lines"
    ELSE IF kind = "Polygon" THEN "polygon"
    ELSE "none"

\* Image.annotate_shape
AnnotateShapeOn(st, shape, color, fill_color) ==
    CASE ShapeBranch(shape.kind) = "segments" -> DrawSegments(st, shape.coords, color)
      [] ShapeBranch(shape.kind) = "lines" -> DrawEach(st, shape.parts, color, 1)
      [] ShapeBranch(shape.kind) = "polygon" ->
            LET rings  == <<IntPoints(shape.coords)>>
                            \o [k \in 1..Len(shape.parts) |-> IntPoints(shape.parts[k])]
                filled == IF fill_color # NoColor
                          THEN Drawing(Paint(st.ann, FillPolyPixels(st.ann, rings),
                                             FixColorTuple(fill_color)), st.segs)
                          ELSE st
            IN  DrawEach(DrawSegments(filled, shape.coords, color), shape.parts, color, 1)
      [] OTHER -> st


-----------------------------------------------------------------------------
(* Compositing: Image.as_annotated *)

\* opacities are fractions <<num, den>> with a power of two as denominator,
\* for which the float arithmetic of the blend is exact
AlphaOne == <<1, 1>>
AlphaZero == <<0, 1>>
AlphaHalf == <<1, 2>>

\* a mask that selects every element
InMaskAll(ann, x, y, k) == InArray(ann, x, y)

\* annotation_data.nonzero(): element (y, x, k) is in the mask when it is
\* not 0
InMask(ann, x, y, k) == InArray(ann, x, y) /\ ann.px[Index(ann, x, y)][k] # 0

\* tmp_img[mask] raises IndexError when the mask holds an index outside
\* tmp_img
MaskOutside(ann, tmp) ==
    \E p \in 1..Len(ann.px), k \in 1..3 :
        /\ ann.px[p][k] # 0
        /\ ~InArray(tmp, XOf(ann, p), YOf(ann, p))

\* the blend rounded to the nearest value (halves to the even one)
BlendElementRounded(alpha, a, b) ==
    LET n == alpha[1] * a + (alpha[2] - alpha[1]) * b
        q == n \div alpha[2]
        r == n % alpha[2]
    IN  IF 2 * r > alpha[2] \/ (2 * r = alpha[2] /\ q % 2 = 1) THEN q + 1 ELSE q

\* alpha * a + (1 - alpha) * b, a float, stored into a uint8 array: the
\* store drops the fraction
BlendElement(alpha, a, b) == (alpha[1] * a + (alpha[2] - alpha[1]) * b) \div alpha[2]

\* tmp_img[mask] = alpha * annotation_data[mask] + (1 - alpha) * tmp_img[mask]
Blend(tmp, ann, alpha) ==
    [tmp EXCEPT !.px = [p \in 1..Len(tmp.px) |-> [k \in 1..3 |->
        IF InMask(ann, XOf(tmp, p), YOf(tmp, p), k)
        THEN BlendElement(alpha, ann.px[Index(ann, XOf(tmp, p), YOf(tmp, p))][k], tmp.px[p][k])
        ELSE tmp.px[p][k]]]]

\* tmp_img = self.data, without the copy
TmpImgCellNoCopy(im, new) == IF im.nchannels = 1 THEN new ELSE im.data

\* the cell tmp_img lives in: a new array (cvtColor's result, or a copy)
TmpImgCell(im, new) == new

\* Image.as_annotated, with h the heap and new the cell of the new array:
\* the heap after the call, the cell of the raster returned, the error raised
AsAnnotatedCall(h, im, alpha, new) ==
    LET tmp == IF im.nchannels = 1 THEN CvtColorGray2BGR(h[im.data]) ELSE Copy(h[im.data])
        c   == TmpImgCell(im, new)
    IN  IF MaskOutside(h[im.annotation_data], tmp)
        THEN [heap |-> h, cell |-> NoCell, err |-> "IndexError"]
        ELSE [heap |-> [h EXCEPT ![c] = Blend(tmp, h[im.annotation_data], alpha)],
              cell |-> c, err |-> ""]

\* img_array[:, :, 0] <-> img_array[:, :, 2]
SwapChannels(a) ==
    [a EXCEPT !.px = [p \in 1..Len(a.px) |-> <<a.px[p][3], a.px[p][2], a.px[p][1]>>]]

\* img_array = self.data, without the copy
ShowPlainCellNoCopy(im, new) == im.data

\* the cell of Image.show's img_array when annotations are off: a copy
ShowPlainCell(im, new) == new

\* Image.show up to the hand-over to the window: the heap then, the cell of
\* img_array, the error raised
ShowCall(h, im, highgui, annotations, alpha, new) ==
    LET r == IF annotations THEN AsAnnotatedCall(h, im, alpha, new)
             ELSE [heap |-> [h EXCEPT ![ShowPlainCell(im, new)] = Copy(h[im.data])],
                   cell |-> ShowPlainCell(im, new), err |-> ""]
        a == r.heap[r.cell]
        last_dim == IF a.nch = 1 THEN a.w ELSE a.nch
    IN  IF r.err # "" \/ highgui \/ last_dim # 3 THEN r
        ELSE IF a.nch = 1 THEN [heap |-> r.heap, cell |-> NoCell, err |-> "IndexError"]
        ELSE [heap |-> [r.heap EXCEPT ![r.cell] = SwapChannels(a)],
              cell |-> r.cell, err |-> ""]

\* Image.save up to cv2.imwrite: img_array is the composite or self.data itself
SaveCall(h, im, annotated, new) ==
    IF annotated THEN AsAnnotatedCall(h, im, AlphaHalf, new)
    ELSE [heap |-> h, cell |-> im.data, err |-> ""]


-----------------------------------------------------------------------------
(* Construction: Image.__init__ *)

ImageIds == {1, 2}

\* the new arrays an Image allocates: the decoded file, the annotation layer
DecodedCell(i) == IF i = 1 THEN "dec1" ELSE "dec2"

\* one annotation layer for all Images (a class attribute)
OverlayCellShared(i) == "ann1"

OverlayCell(i) == IF i = 1 THEN "ann1" ELSE "ann2"

\* a source is an ndarray the caller holds (cell "src") or a file, whose
\* decoding (cv2.imread, cv2.imdecode) gives array, or None (NoArray)
NdarraySource == [kind |-> "ndarray", array |-> NoArray]
FileSource(a) == [kind |-> "file", array |-> a]

\* Image.__init__, with h the heap: the heap after it, the object's fields,
\* the error raised
NewImage(h, i, source) ==
    LET dcell == IF source.kind = "ndarray" THEN "src" ELSE DecodedCell(i)
        h1    == IF source.kind = "ndarray" THEN h
                 ELSE [h EXCEPT ![dcell] = source.array]
        d     == h1[dcell]
    IN  IF d = NoArray
        THEN [heap |-> h, image |-> NoImage, err |-> "AttributeError"]
        ELSE [heap |-> [h1 EXCEPT ![OverlayCell(i)] = Zeros3(d.h, d.w)],
              image |-> [data |-> dcell, annotation_data |-> OverlayCell(i),
                         height |-> d.h, width |-> d.w, nchannels |-> d.nch],
              err |-> ""]

-----------------------------------------------------------------------------
(* Inputs *)

Gray(height, width, px) == [h |-> height, w |-> width, nch |-> 1, px |-> px]
Bgr(height, width, px) == [h |-> height, w |-> width, nch |-> 3, px |-> px]

BaseArrays ==
    { Gray(1, 2, << <<0>>, <<200>> >>),
      Bgr(1, 2, << <<0, 0, 0>>, <<10, 100, 200>> >>),
      Bgr(2, 1, << <<255, 255, 255>>, <<0, 7, 0>> >>) }

Colors == { <<0, 255, 0>>, <<255, 0, 0>> }
Black == <<0, 0, 0>>
Alphas == { AlphaZero, <<1, 4>>, AlphaHalf, AlphaOne }
PixelPoints == { <<0, 0>>, <<1, 0>>, <<0, 1>> }
FloatPoints == { <<0, 0>>, <<3, -1>>, <<-1, 3>> }
ShapePoints == { <<0, 0>>, <<3, -1>> }

SeqsUpTo(S, n) == UNION {[1..k -> S] : k \in 0..n}

Triangle == << <<0, 0>>, <<3, -1>>, <<-1, 3>> >>
Lines ==
    {Geometry(kind, cs, << >>) : kind \in {"LineString", "LinearRing"},
                                 cs \in SeqsUpTo(ShapePoints, MaxCoords)}
MultiLines ==
    {Geometry("MultiLineString", << >>, ps) :
        ps \in SeqsUpTo({ << <<0, 0>>, <<3, -1>> >>, << <<-1, 3>> >> }, 2)}
Polygons ==
    {Geometry("Polygon", Triangle, ps) : ps \in {<< >>, << Triangle >>}}
    \cup {Geometry("Polygon", << <<3, -1>>, <<3, -1>> >>, << >>)}
Others ==
    {Geometry("Point", << <<3, -1>> >>, << >>),
     Geometry("MultiPolygon", << >>, << Triangle >>)}

\* the annotate_shape calls made: <<shape, color, fill_color>>
ShapeCalls ==
    {<<g, IF g.kind = "LineString" THEN <<0, 255, 0>> ELSE <<255, 0, 0>>, NoColor>> :
        g \in Lines}
    \cup (MultiLines \X {<<0, 255, 0>>} \X {NoColor})
    \cup (Polygons \X {<<0, 255, 0>>} \X {NoColor, <<255, 0, 0>>})
    \cup (Others \X {<<0, 255, 0>>} \X {NoColor, <<255, 0, 0>>})

\* a text as cv2 renders it: the glyph pixels relative to the origin, and
\* the size cv2.getTextSize reports
Texts ==
    { [glyphs |-> {}, w |-> 0, h |-> 0],
      [glyphs |-> {<<0, 0>>}, w |-> 1, h |-> 1],
      [glyphs |-> {<<0, -1>>, <<1, 0>>}, w |-> 2, h |-> 2] }

-----------------------------------------------------------------------------
(* State *)

Call(op, img, color, fill, alpha, shape, segs, err, out) ==
    [op |-> op, img |-> img, color |-> color, fill |-> fill, alpha |-> alpha,
     shape |-> shape, segs |-> segs, err |-> err, out |-> out]

EmptyHeap == [c \in Cells |-> NoArray]

\* crop_regions has not been called
NoCropCall == [called |-> FALSE, shapes |-> << >>, crop_size |-> << >>, pad |-> 0,
               result |-> << >>]

\* a tile generator: the ids it yields, how many it has yielded, whether it
\* has raised StopIteration
TileGen(items) == [items |-> items, pos |-> 0, finished |-> FALSE]

\* TileSelector.__init__
NewTileSelector(tile_generator, chunk_size) ==
    [tile_gen |-> tile_generator, chunk_size |-> chunk_size,
     selected |-> << >>, done |-> FALSE]

\* no TileSelector has been built, process_all is not running
NoTileSelector == NewTileSelector(TileGen(<< >>), 1)
NotRunning == [pc |-> "idle", page |-> 0]

Built(i) == imgs[i] # NoImage
Overlay(i) == heap[imgs[i].annotation_data]
Base(i) == heap[imgs[i].data]

\* an Image just built from source, the only one so far
InitWith(h, source) ==
    LET n == NewImage(h, 1, source)
    IN  /\ n.err = ""
        /\ heap = n.heap
        /\ imgs = [i \in ImageIds |-> IF i = 1 THEN n.image ELSE NoImage]
        /\ data0 = [i \in ImageIds |-> IF i = 1 THEN n.heap[n.image.data] ELSE NoArray]
        /\ ret = NoCell
        /\ last = Call("init", 1, NoColor, NoColor, AlphaZero, NoShape, << >>, "", NoArray)
        /\ crops = NoCropCall
        /\ selector = NoTileSelector
        /\ run = NotRunning
        /\ windows = << >>

Init ==
    \E a \in BaseArrays :
        IF a.h = 1 THEN InitWith([EmptyHeap EXCEPT !["src"] = a], NdarraySource)
        ELSE InitWith(EmptyHeap, FileSource(a))


-----------------------------------------------------------------------------
(* The operations of an Image *)

\* a drawing call on image i that leaves the annotation layer as st.ann; the
\* caller has let go of the raster an earlier as_annotated gave it
Annotated(i, op, color, fill, shape, st) ==
    /\ heap' = [[heap EXCEPT !["ret"] = NoArray]
                    EXCEPT ![imgs[i].annotation_data] = st.ann]
    /\ ret' = NoCell
    /\ last' = Call(op, i, color, fill, AlphaZero, shape, st.segs, "", NoArray)
    /\ UNCHANGED <<imgs, data0>>
    /\ UNCHANGED others

AnnotateShape(i, shape, color, fill_color) ==
    /\ Built(i)
    /\ Annotated(i, "annotate_shape", color, fill_color, shape,
                 AnnotateShapeOn(Drawing(Overlay(i), << >>), shape, color, fill_color))

\* annotate_point: annotate_circle(point, 3, color, thickness=-1)
AnnotatePoint(i, point, color) ==
    /\ Built(i)
    /\ Annotated(i, "annotate_point", color, NoColor, NoShape,
                 Drawing(AnnotateCircleOn(Overlay(i), point, 3, color, TRUE), << >>))

AnnotateCircle(i, ctr, radius, color, filled) ==
    /\ Built(i)
    /\ Annotated(i, "annotate_circle", color, NoColor, NoShape,
                 Drawing(AnnotateCircleOn(Overlay(i), ctr, radius, color, filled), << >>))

AnnotateLine(i, pt1, pt2, color) ==
    /\ Built(i)
    /\ Annotated(i, "annotate_line", color, NoColor, NoShape,
                 AnnotateLineOn(Drawing(Overlay(i), << >>), pt1, pt2, color))

AnnotateRect(i, pt1, pt2, color, filled) ==
    /\ Built(i)
    /\ Annotated(i, "annotate_rect", color, NoColor, NoShape,
                 Drawing(AnnotateRectOn(Overlay(i), pt1, pt2, color, filled), << >>))

\* annotate_text: the background rectangle when bg_color is given, then
\* cv2.putText in the fixed colour
AnnotateText(i, txt, point, color, bg_color) ==
    /\ Built(i)
    /\ LET c      == FixColorTuple(color)
           point1 == <<point[1] - 1, point[2] + 1>>
           point2 == <<point1[1] + txt.w + 2, point1[2] - txt.h - 2>>
           backed == IF bg_color # NoColor
                     THEN AnnotateRectOn(Overlay(i), point1, point2, bg_color, TRUE)
                     ELSE Overlay(i)
           glyphs == {<<point[1] + g[1], point[2] + g[2]>> : g \in txt.glyphs}
       IN  Annotated(i, "annotate_text", color, bg_color, NoShape,
                     Drawing(Paint(backed, glyphs, c), << >>))

\* as_annotated: the caller gets the new raster
AsAnnotated(i, alpha) ==
    /\ Built(i)
    /\ LET r == AsAnnotatedCall(heap, imgs[i], alpha, "ret")
       IN  /\ heap' = r.heap
           /\ ret' = IF r.err = "" THEN r.cell ELSE ret
           /\ last' = Call("as_annotated", i, NoColor, NoColor, alpha, NoShape, << >>,
                           r.err, NoArray)
    /\ UNCHANGED <<imgs, data0>>
    /\ UNCHANGED others

\* show: img_array goes to the window (out) and is dropped
Show(i, highgui, annotations, alpha) ==
    /\ Built(i)
    /\ LET r == ShowCall(heap, imgs[i], highgui, annotations, alpha, "tmp")
       IN  /\ heap' = [r.heap EXCEPT !["tmp"] = NoArray]
           /\ last' = Call("show", i, NoColor, NoColor, alpha, NoShape, << >>, r.err,
                           IF r.err = "" THEN r.heap[r.cell] ELSE NoArray)
    /\ UNCHANGED <<imgs, data0, ret>>
    /\ UNCHANGED others

\* save: img_array goes to cv2.imwrite (out)
Save(i, annotated) ==
    /\ Built(i)
    /\ LET r == SaveCall(heap, imgs[i], annotated, "tmp")
       IN  /\ heap' = [r.heap EXCEPT !["tmp"] = NoArray]
           /\ last' = Call("save", i, NoColor, NoColor, AlphaHalf, NoShape, << >>, r.err,
                           IF r.err = "" THEN r.heap[r.cell] ELSE NoArray)
    /\ UNCHANGED <<imgs, data0, ret>>
    /\ UNCHANGED others

\* the caller writes a pixel of the raster as_annotated returned
WriteReturned(p, v) ==
    /\ ret # NoCell
    /\ p \in 1..Len(heap[ret].px)
    /\ heap' = [heap EXCEPT ![ret].px[p] = v]
    /\ last' = Call("write_returned", 0, NoColor, NoColor, AlphaZero, NoShape, << >>, "",
                    NoArray)
    /\ UNCHANGED <<imgs, data0, ret>>
    /\ UNCHANGED others

\* Image(source) for the i-th Image of the program
Construct(i, source) ==
    /\ ~Built(i)
    /\ LET n == NewImage(heap, i, source)
       IN  /\ heap' = [n.heap EXCEPT !["ret"] = NoArray]
           /\ imgs' = [imgs EXCEPT ![i] = n.image]
           /\ data0' = [data0 EXCEPT ![i] = IF n.err = "" THEN n.heap[n.image.data]
                                            ELSE NoArray]
           /\ last' = Call("init", i, NoColor, NoColor, AlphaZero, NoShape, << >>, n.err,
                           NoArray)
    /\ ret' = NoCell
    /\ UNCHANGED others

\* a pixel of value v for an array of nch channels
Pixel(nch, v) == [k \in 1..nch |-> v]

\* the caller writes a pixel of the array it built an Image from
WriteSource(p, v) ==
    /\ p \in 1..Len(heap["src"].px)
    /\ heap' = [[heap EXCEPT !["ret"] = NoArray]
                    EXCEPT !["src"].px[p] = Pixel(heap["src"].nch, v)]
    /\ ret' = NoCell
    /\ last' = Call("write_source", 0, NoColor, NoColor, AlphaZero, NoShape, << >>, "",
                    NoArray)
    /\ UNCHANGED <<imgs, data0>>
    /\ UNCHANGED others

\* the caller reshapes its array in place: source.shape = (w, h) or (w, h, 3)
ReshapeSource ==
    /\ heap["src"] # NoArray
    /\ heap' = [[heap EXCEPT !["ret"] = NoArray]
                    EXCEPT !["src"].h = heap["src"].w, !["src"].w = heap["src"].h]
    /\ ret' = NoCell
    /\ last' = Call("reshape_source", 0, NoColor, NoColor, AlphaZero, NoShape, << >>, "",
                    NoArray)
    /\ UNCHANGED <<imgs, data0>>
    /\ UNCHANGED others

\* img[...] = v: __getitem__ gives a view of self.data, which the caller writes
SetItem(i, p, v) ==
    /\ Built(i)
    /\ p \in 1..Len(Base(i).px)
    /\ heap' = [[heap EXCEPT !["ret"] = NoArray]
                    EXCEPT ![imgs[i].data].px[p] = Pixel(Base(i).nch, v)]
    /\ ret' = NoCell
    /\ last' = Call("setitem", i, NoColor, NoColor, AlphaZero, NoShape, << >>, "", NoArray)
    /\ UNCHANGED <<imgs, data0>>
    /\ UNCHANGED others

Next ==
    \/ \E sc \in ShapeCalls : AnnotateShape(1, sc[1], sc[2], sc[3])
    \/ \E pt \in {<<0, 0>>, <<-1, 9>>}, c \in Colors : AnnotatePoint(1, pt, c)
    \/ \E pt \in {<<0, 0>>, <<3, -1>>}, r \in 0..1, f \in BOOLEAN :
           AnnotateCircle(1, pt, r, <<255, 0, 0>>, f)
    \/ \E pt1 \in PixelPoints, pt2 \in PixelPoints, c \in Colors :
           AnnotateLine(1, pt1, pt2, c)
    \/ \E pt2 \in PixelPoints, c \in Colors, f \in BOOLEAN :
           AnnotateRect(1, <<0, 0>>, pt2, c, f)
    \/ \E t \in Texts, pt \in {<<0, 0>>, <<1, 1>>}, bg \in {NoColor, <<255, 0, 0>>} :
           AnnotateText(1, t, pt, Black, bg)
    \/ \E al \in Alphas : AsAnnotated(1, al)
    \/ \E hg \in BOOLEAN, an \in BOOLEAN, al \in {AlphaHalf, AlphaOne} :
           Show(1, hg, an, al)
    \/ \E an \in BOOLEAN : Save(1, an)
    \/ \E p \in 1..2 : WriteReturned(p, <<9, 9, 9>>)

Spec == Init /\ [][Next]_vars


(* Several Images and the array the caller built them from *)

FileArray == Bgr(1, 2, << <<1, 2, 3>>, <<4, 5, 6>> >>)

InitOwn ==
    /\ \E a \in {b \in BaseArrays : b.h = 1} : heap = [EmptyHeap EXCEPT !["src"] = a]
    /\ imgs = [i \in ImageIds |-> NoImage]
    /\ data0 = [i \in ImageIds |-> NoArray]
    /\ ret = NoCell
    /\ last = Call("none", 0, NoColor, NoColor, AlphaZero, NoShape, << >>, "", NoArray)
    /\ crops = NoCropCall
    /\ selector = NoTileSelector
    /\ run = NotRunning
    /\ windows = << >>

NextOwn ==
    \/ \E i \in ImageIds, src \in {NdarraySource, FileSource(FileArray), FileSource(NoArray)} :
           Construct(i, src)
    \/ WriteSource(1, 77)
    \/ ReshapeSource
    \/ \E i \in ImageIds : SetItem(i, 2, 88)
    \/ \E i \in ImageIds, pt \in {<<0, 0>>, <<1, 0>>} :
           AnnotateLine(i, pt, pt, <<0, 255, 0>>)
    \/ \E i \in ImageIds : AsAnnotated(i, AlphaOne)

SpecOwn == InitOwn /\ [][NextOwn]_vars

-----------------------------------------------------------------------------
(* Properties of one Image (Spec) *)

AnnotateOps == {"annotate_shape", "annotate_point", "annotate_circle",
                "annotate_line", "annotate_rect", "annotate_text"}

\* as_annotated has just returned a raster for image 1
Composited == last.op = "as_annotated" /\ last.err = "" /\ ret # NoCell

\* the base pixel p of image i as three channels
BasePixel(i, p) ==
    IF Base(i).nch = 1 THEN <<Base(i).px[p][1], Base(i).px[p][1], Base(i).px[p][1]>>
    ELSE Base(i).px[p]

Pixels(i) == 1..Len(Overlay(i).px)

\* C1: wherever the overlay pixel is (0,0,0), the raster as_annotated returns
\* holds the base pixel (the grey value three times for a 1-channel base),
\* whatever the opacity.
C1_UntouchedPixelsKeepBase ==
    Composited =>
        \A p \in Pixels(1) :
            Overlay(1).px[p] = <<0, 0, 0>> => heap[ret].px[p] = BasePixel(1, p)

C1_Witness ==
    /\ Composited
    /\ last.alpha = AlphaHalf
    /\ imgs[1].nchannels = 1
    /\ \E p \in Pixels(1) : Overlay(1).px[p] = <<0, 0, 0>> /\ Base(1).px[p] = <<200>>
    /\ \E p \in Pixels(1) : Overlay(1).px[p] # <<0, 0, 0>>

\* the overlay pixels whose three components are all >= 1
FullyDrawn(i, p) == \A k \in 1..3 : Overlay(i).px[p][k] >= 1

\* alpha * overlay + (1 - alpha) * base, times the denominator of alpha
BlendTimesDen(alpha, i, p, k) ==
    alpha[1] * Overlay(i).px[p][k] + (alpha[2] - alpha[1]) * BasePixel(i, p)[k]

\* C2 as claimed: at a pixel whose overlay components are all >= 1 every
\* output channel is the blend rounded to the nearest 8-bit value.
C2_BlendIsRounded ==
    Composited =>
        \A p \in Pixels(1), k \in 1..3 :
            FullyDrawn(1, p) =>
                LET v == heap[ret].px[p][k]
                    n == BlendTimesDen(last.alpha, 1, p, k)
                    d == last.alpha[2]
                IN  2 * Abs(d * v - n) <= d

\* C2 as amended: at a pixel whose overlay components are all >= 1 every
\* output channel is the blend with its fraction dropped (the largest 8-bit
\* value not above it); it is the base value at opacity 0 and the overlay
\* value at opacity 1.
C2_BlendIsTruncated ==
    Composited =>
        \A p \in Pixels(1), k \in 1..3 :
            FullyDrawn(1, p) =>
                LET v == heap[ret].px[p][k]
                    n == BlendTimesDen(last.alpha, 1, p, k)
                    d == last.alpha[2]
                IN  /\ v \in 0..255
                    /\ d * v <= n /\ n < d * (v + 1)
                    /\ last.alpha = AlphaZero => v = BasePixel(1, p)[k]
                    /\ last.alpha = AlphaOne => v = Overlay(1).px[p][k]

C2_Witness ==
    /\ Composited
    /\ last.alpha = <<1, 4>>
    /\ \E p \in Pixels(1) :
        /\ Overlay(1).px[p] = <<1, 255, 1>>
        /\ BasePixel(1, p) = <<0, 0, 0>>
        /\ heap[ret].px[p] = <<0, 63, 0>>


\* C3: as_annotated (also when show or save calls it) leaves the base raster
\* and the overlay as they were and returns a raster in a buffer of its own;
\* a second call with the same opacity, nothing drawn in between, returns an
\* identical raster; a write into the returned raster changes neither the
\* base raster nor the overlay.
C3_AsAnnotatedSideEffectFree ==
    [][ /\ last'.op \in {"show", "save"} =>
            Base(1)' = Base(1) /\ Overlay(1)' = Overlay(1)
        /\ last'.op = "as_annotated" =>
            /\ Base(1)' = Base(1)
            /\ Overlay(1)' = Overlay(1)
            /\ last'.err = "" => ret' \notin {imgs[1].data, imgs[1].annotation_data}
        /\ ( /\ last.op = "as_annotated" /\ last.err = ""
             /\ last'.op = "as_annotated"
             /\ last'.alpha = last.alpha ) => heap'[ret'] = heap[ret]
        /\ last'.op = "write_returned" =>
            Base(1)' = Base(1) /\ Overlay(1)' = Overlay(1)
      ]_vars

C3_Witness ==
    /\ last.op = "write_returned"
    /\ imgs[1].nchannels = 3
    /\ \E p \in Pixels(1) : Overlay(1).px[p] # <<0, 0, 0>> /\ heap[ret].px[p] = <<9, 9, 9>>

\* C4: whatever has been drawn, composited, shown or saved, the base raster
\* is pixel for pixel what it was when the Image was built.
C4_BaseRasterNeverWritten ==
    Built(1) => Base(1) = data0[1]

C4_Witness ==
    /\ last.op = "show"
    /\ last.err = ""
    /\ imgs[1].nchannels = 3
    /\ last.out = SwapChannels(Base(1))
    /\ last.out # Base(1)
    /\ \E p \in Pixels(1) : Overlay(1).px[p] # <<0, 0, 0>>

\* (r, g, b) in (b, g, r) order, each 0 made 1
AsDrawn(color) ==
    [k \in 1..3 |-> IF color[4 - k] = 0 THEN 1 ELSE color[4 - k]]

\* C5: every pixel an annotation call changes gets the call's colour (or its
\* fill or background colour) in (b, g, r) order with each 0 made 1; and
\* after annotating with (0, 255, 0), as_annotated at opacity 1 gives a
\* value without a zero component wherever something is drawn.
C5_ColoursAreFixedBeforeDrawing ==
    /\ [][ last'.op \in AnnotateOps =>
             \A p \in Pixels(1) :
                 Overlay(1)'.px[p] # Overlay(1).px[p] =>
                     \/ Overlay(1)'.px[p] = AsDrawn(last'.color)
                     \/ last'.fill # NoColor /\ Overlay(1)'.px[p] = AsDrawn(last'.fill)
         ]_vars
    /\ [](Composited /\ last.alpha = AlphaOne =>
             \A p \in Pixels(1), k \in 1..3 :
                 Overlay(1).px[p] # <<0, 0, 0>> => heap[ret].px[p][k] # 0)

C5_Witness ==
    /\ Composited
    /\ last.alpha = AlphaOne
    /\ \E p \in Pixels(1) :
        /\ Overlay(1).px[p] = <<1, 255, 1>>
        /\ BasePixel(1, p) = <<0, 0, 0>>
        /\ heap[ret].px[p] = <<1, 255, 1>>

SupportedKinds == {"LineString", "LinearRing", "MultiLineString", "Polygon"}

\* C7: annotate_shape on a geometry that is no LineString, LinearRing,
\* MultiLineString or Polygon raises nothing and leaves the overlay and the
\* base raster as they were.
C7_UnsupportedGeometryIsNoOp ==
    [][ (last'.op = "annotate_shape" /\ last'.shape.kind \notin SupportedKinds) =>
            /\ last'.err = ""
            /\ last'.segs = << >>
            /\ Overlay(1)' = Overlay(1)
            /\ Base(1)' = Base(1)
      ]_vars

C7_Witness ==
    /\ last.op = "annotate_shape"
    /\ last.shape.kind = "MultiPolygon"
    /\ last.fill # NoColor
    /\ \E p \in Pixels(1) : Overlay(1).px[p] = <<0, 0, 0>>

\* C10: stroking a LineString or LinearRing of n coordinates draws the n-1
\* segments from coordinate i-1 to coordinate i, in order, and no segment
\* from the last back to the first; with fewer than two coordinates nothing
\* is drawn, the overlay is unchanged and nothing is raised.
C10_SegmentsJoinConsecutiveCoordinates ==
    /\ []( (last.op = "annotate_shape" /\ last.shape.kind \in {"LineString", "LinearRing"}) =>
             LET cs == last.shape.coords
             IN  /\ last.err = ""
                 /\ Len(last.segs) = IF Len(cs) = 0 THEN 0 ELSE Len(cs) - 1
                 /\ \A j \in 1..Len(last.segs) :
                        last.segs[j] = <<IntPoint(cs[j]), IntPoint(cs[j + 1])>> )
    /\ [][ ( /\ last'.op = "annotate_shape"
             /\ last'.shape.kind \in {"LineString", "LinearRing"}
             /\ Len(last'.shape.coords) <= 1 ) => Overlay(1)' = Overlay(1)
         ]_vars

C10_Witness ==
    /\ last.op = "annotate_shape"
    /\ last.shape.kind = "LinearRing"
    /\ Len(last.shape.coords) = 3
    /\ last.shape.coords[1] # last.shape.coords[3]
    /\ Len(last.segs) = 2
    /\ Overlay(1).px[1] # <<0, 0, 0>>

\* C11: after any sequence of annotate_* calls every overlay pixel is
\* (0,0,0) or has all three components >= 1; so the non-zero mask of
\* as_annotated holds all three channels of every drawn pixel and none of an
\* undrawn one, and every channel of a drawn pixel of the returned raster is
\* the blend of the overlay and the base value.
C11_DrawnPixelsAreWhollyMasked ==
    /\ Built(1) =>
           \A p \in Pixels(1) :
               LET x == XOf(Overlay(1), p)
                   y == YOf(Overlay(1), p)
               IN  /\ Overlay(1).px[p] = <<0, 0, 0>> \/ FullyDrawn(1, p)
                   /\ \A k \in 1..3 :
                          InMask(Overlay(1), x, y, k) <=> Overlay(1).px[p] # <<0, 0, 0>>
    /\ Composited =>
           \A p \in Pixels(1), k \in 1..3 :
               Overlay(1).px[p] # <<0, 0, 0>> =>
                   heap[ret].px[p][k]
                       = BlendElement(last.alpha, Overlay(1).px[p][k], BasePixel(1, p)[k])

C11_Witness ==
    /\ Composited
    /\ last.alpha = AlphaHalf
    /\ \E p \in Pixels(1) :
        /\ Overlay(1).px[p] = <<1, 1, 1>>
        /\ BasePixel(1, p) = <<10, 100, 200>>
        /\ heap[ret].px[p] = <<5, 50, 100>>
    /\ \E p \in Pixels(1) : Overlay(1).px[p] = <<0, 0, 0>>


-----------------------------------------------------------------------------
(* Properties of several Images (SpecOwn) *)

\* the step is a write by the caller or through an Image other than j
WriteElsewhere(j) ==
    \/ last'.op \in {"write_source", "reshape_source"}
    \/ last'.op \in AnnotateOps \cup {"setitem"} /\ last'.img # j

Mismatched(i) ==
    Built(i) /\ (Overlay(i).h # Base(i).h \/ Overlay(i).w # Base(i).w)

\* C8: on an Image whose overlay and base raster differ in height or width,
\* as_annotated and every annotate_* call report an error.
C8_SizeMismatchFailsFast ==
    ( /\ last.op \in AnnotateOps \cup {"as_annotated"}
      /\ last.img \in ImageIds
      /\ Mismatched(last.img) ) => last.err # ""


-----------------------------------------------------------------------------
(* Region cropping: pyvision's crop_regions, which examples/crop_regions.py *)
(* calls.  Its coordinates are whole pixels here.                           *)

RECURSIVE SumTo(_, _)
SumTo(f, n) == IF n = 0 THEN 0 ELSE f[n] + SumTo(f, n - 1)

MinOf(S) == CHOOSE m \in S : \A x \in S : m <= x
MaxOf(S) == CHOOSE m \in S : \A x \in S : m >= x

\* shape.bounds: <<minx, miny, maxx, maxy>>
BoundsOf(coords) ==
    LET xs == {coords[i][1] : i \in 1..Len(coords)}
        ys == {coords[i][2] : i \in 1..Len(coords)}
    IN  <<MinOf(xs), MinOf(ys), MaxOf(xs), MaxOf(ys)>>

\* shape.centroid of a polygon: the centroid of its area
CentroidOf(coords) ==
    LET n     == Len(coords)
        nx(i) == coords[(i % n) + 1]
        cross == [i \in 1..n |-> coords[i][1] * nx(i)[2] - nx(i)[1] * coords[i][2]]
        area2 == SumTo(cross, n)
        sx    == SumTo([i \in 1..n |-> (coords[i][1] + nx(i)[1]) * cross[i]], n)
        sy    == SumTo([i \in 1..n |-> (coords[i][2] + nx(i)[2]) * cross[i]], n)
    IN  <<sx \div (3 * area2), sy \div (3 * area2)>>

Rect(x, y, w, h) == [x |-> x, y |-> y, w |-> w, h |-> h]

\* the bounding box, grown by pad pixels on each side
BoundsRect(coords, pad) ==
    LET b == BoundsOf(coords)
    IN  Rect(b[1] - pad, b[2] - pad, b[3] - b[1] + 2 * pad, b[4] - b[2] + 2 * pad)

\* pv3.CenteredRect(cx, cy, w, h)
CenteredRect(c, size) ==
    Rect(c[1] - size[1] \div 2, c[2] - size[2] \div 2, size[1], size[2])

\* the rectangle clipped to [0, width) x [0, height)
ClipRect(r, width, height) ==
    LET x0 == Max(r.x, 0)
        y0 == Max(r.y, 0)
        x1 == Min(r.x + r.w, width)
        y1 == Min(r.y + r.h, height)
    IN  Rect(x0, y0, Max(x1 - x0, 0), Max(y1 - y0, 0))

\* the crop window of a shape
CropRect(a, coords, crop_size, pad) ==
    ClipRect(IF crop_size = << >> THEN BoundsRect(coords, pad)
             ELSE CenteredRect(CentroidOf(coords), crop_size),
             a.w, a.h)

NoCrop == [kind |-> "NoCrop", array |-> NoArray]

\* a copy of the pixels of a inside r
CropArray(a, r) ==
    [h |-> r.h, w |-> r.w, nch |-> a.nch,
     px |-> [p \in 1..(r.w * r.h) |->
                a.px[Index(a, r.x + ((p - 1) % r.w), r.y + ((p - 1) \div r.w))]]]

CropOne(a, coords, crop_size, pad) ==
    LET r == CropRect(a, coords, crop_size, pad)
    IN  IF r.w = 0 \/ r.h = 0 THEN NoCrop
        ELSE [kind |-> "crop", array |-> CropArray(a, r)]

\* crop_regions that leaves out the shapes whose window is empty
CropRegionsSkipEmpty(a, shapes, crop_size, pad) ==
    SelectSeq([i \in 1..Len(shapes) |-> CropOne(a, shapes[i], crop_size, pad)],
              LAMBDA c : c # NoCrop)

\* crop_regions(image, shapes, crop_size, pad)
CropRegions(a, shapes, crop_size, pad) ==
    [i \in 1..Len(shapes) |-> CropOne(a, shapes[i], crop_size, pad)]

\* crops are taken from the base raster; the Image is left alone
Crop(i, shapes, crop_size, pad) ==
    /\ Built(i)
    /\ crops' = [called |-> TRUE, shapes |-> shapes, crop_size |-> crop_size,
                 pad |-> pad, result |-> CropRegions(Base(i), shapes, crop_size, pad)]
    /\ UNCHANGED <<heap, imgs, data0, ret, last, selector, run, windows>>

CropBase ==
    Gray(4, 4, [p \in 1..16 |-> <<(10 * ((p - 1) \div 4)) + ((p - 1) % 4)>>])

CropShapes ==
    { << <<0, 0>>, <<3, 0>>, <<0, 3>> >>,
      << <<2, 2>>, <<5, 2>>, <<5, 5>>, <<2, 5>> >>,
      << <<6, 6>>, <<8, 6>>, <<8, 8>>, <<6, 8>> >> }

InitCrop == InitWith([EmptyHeap EXCEPT !["src"] = CropBase], NdarraySource)

NextCrop ==
    \/ \E shapes \in SeqsUpTo(CropShapes, MaxShapes), size \in {<< >>, <<2, 2>>},
          pad \in 0..1 :
           Crop(1, shapes, size, pad)
    \/ \E pt \in {<<1, 1>>, <<3, 2>>} : AnnotateRect(1, <<0, 0>>, pt, <<0, 255, 0>>, TRUE)

SpecCrop == InitCrop /\ [][NextCrop]_vars

-----------------------------------------------------------------------------
(* The tile selector: TileSelector of dataset_tools/tile_selection.py.      *)
(* A tile is known by the id the generator yields with it; it is taken to  *)
(* be an object ImageMontage accepts.                                      *)

\* the page numbers told apart: page only names the window, so those from
\* MaxPage on are one value
MaxPage == MaxTiles + 2
NextPage(page) == IF page < MaxPage THEN page + 1 ELSE page

\* the for loop of process_chunk, ids being those fetched so far: it ends
\* when the generator raises StopIteration, or by the break once
\* count >= chunk_size (count is len(ids))
RECURSIVE Fetch(_, _, _)
Fetch(gen, chunk_size, ids) ==
    IF gen.pos >= Len(gen.items)
    THEN [gen |-> [gen EXCEPT !.finished = TRUE], ids |-> ids]
    ELSE LET got == Append(ids, gen.items[gen.pos + 1])
             g1  == [gen EXCEPT !.pos = gen.pos + 1]
         IN  IF Len(got) >= chunk_size THEN [gen |-> g1, ids |-> got]
             ELSE Fetch(g1, chunk_size, got)

\* [ids[x] for x in imnt.get_highlighted()], the user having highlighted
\* the tiles at the indexes marks; x is the next index
RECURSIVE Highlighted(_, _, _)
Highlighted(ids, marks, x) ==
    IF x >= Len(ids) THEN << >>
    ELSE (IF x \in marks THEN <<PyIndex(ids, x)>> ELSE << >>)
             \o Highlighted(ids, marks, x + 1)

\* TileSelector.process_chunk on the selector s, the user highlighting marks
\* in the window: the selector after the call and the windows shown by it
ProcessChunkCall(s, page_num, marks) ==
    LET f     == Fetch(s.tile_gen, s.chunk_size, << >>)
        count == Len(f.ids)
    IN  IF count = 0
        THEN [selector |-> [s EXCEPT !.tile_gen = f.gen], shown |-> << >>]
        ELSE [selector |->
                  [s EXCEPT !.tile_gen = f.gen,
                            !.done = IF count < s.chunk_size THEN TRUE ELSE s.done,
                            !.selected = s.selected \o Highlighted(f.ids, marks, 0)],
              shown |-> << [page_num |-> page_num, ids |-> f.ids] >>]

\* a call of process_chunk: the user highlights any of the tiles shown
ProcessChunk(page_num) ==
    \E marks \in SUBSET (0..(Len(Fetch(selector.tile_gen, selector.chunk_size, << >>).ids) - 1)) :
        LET r == ProcessChunkCall(selector, page_num, marks)
        IN  /\ selector' = r.selector
            /\ windows' = windows \o r.shown

\* process_all is called: page = 1
ProcessAllCall ==
    /\ run.pc = "idle"
    /\ run' = [pc |-> "while", page |-> 1]
    /\ UNCHANGED <<heap, imgs, data0, ret, last, crops, selector, windows>>

\* while not self.done: the test holds and the body is entered
ProcessAllEnter ==
    /\ run.pc = "while"
    /\ ~selector.done
    /\ run' = [run EXCEPT !.pc = "body"]
    /\ UNCHANGED <<heap, imgs, data0, ret, last, crops, selector, windows>>

\* the body of the loop: self.process_chunk(page_num=page); page += 1
ProcessAllBody ==
    /\ run.pc = "body"
    /\ ProcessChunk(run.page)
    /\ run' = [pc |-> "while", page |-> NextPage(run.page)]
    /\ UNCHANGED <<heap, imgs, data0, ret, last, crops>>

\* the test fails: cv2.destroyAllWindows() and process_all returns
ProcessAllReturn ==
    /\ run.pc = "while"
    /\ selector.done
    /\ run' = [run EXCEPT !.pc = "returned"]
    /\ UNCHANGED <<heap, imgs, data0, ret, last, crops, selector, windows>>

\* the generators and chunk sizes tried: the n-th tile has the id n
Generators == {TileGen([n \in 1..len |-> n]) : len \in 0..MaxTiles}
ChunkSizes == 1..MaxChunk

\* a TileSelector just built; there is no Image
InitTile ==
    /\ heap = EmptyHeap
    /\ imgs = [i \in ImageIds |-> NoImage]
    /\ data0 = [i \in ImageIds |-> NoArray]
    /\ ret = NoCell
    /\ last = Call("none", 0, NoColor, NoColor, AlphaZero, NoShape, << >>, "", NoArray)
    /\ crops = NoCropCall
    /\ \E g \in Generators, c \in ChunkSizes : selector = NewTileSelector(g, c)
    /\ run = NotRunning
    /\ windows = << >>

NextTile ==
    \/ ProcessAllCall
    \/ ProcessAllEnter
    \/ ProcessAllBody
    \/ ProcessAllReturn

\* process_all runs in one thread that always takes its next step, and a
\* window returns once the user closes it
SpecTile == InitTile /\ [][NextTile]_vars /\ WF_vars(NextTile)

\* the ids of the tiles shown in the windows k, k + 1, ...
RECURSIVE ShownFrom(_)
ShownFrom(k) == IF k > Len(windows) THEN << >> ELSE windows[k].ids \o ShownFrom(k + 1)

\* the tiles fetched so far are the generator's first ones, each shown once
\* and in the generator's order
FetchedOnceInOrder ==
    ShownFrom(1) = SubSeq(selector.tile_gen.items, 1, selector.tile_gen.pos)

\* every window holds between 1 and chunk_size tiles
PagesWithinChunkSize ==
    \A k \in 1..Len(windows) : Len(windows[k].ids) \in 1..selector.chunk_size

\* done is set only when the generator has yielded all its tiles
DoneOnlyWhenExhausted ==
    selector.done => selector.tile_gen.pos = Len(selector.tile_gen.items)

\* C12: for every finite tile generator (also an empty one, and one whose
\* length is a multiple of chunk_size) and every chunk_size >= 1, a call of
\* process_all returns, with done = True and every tile of the generator
\* fetched once, in order, in pages of at most chunk_size tiles; done is
\* True only once the generator is exhausted.
C12_ProcessAllTerminates ==
    /\ (run.pc = "while") ~> (run.pc = "returned" /\ selector.done)
    /\ [](run.pc = "returned" => ShownFrom(1) = selector.tile_gen.items)
    /\ []FetchedOnceInOrder
    /\ []PagesWithinChunkSize
    /\ []DoneOnlyWhenExhausted

=============================================================================
